---- MODULE Spec2Model ----
(***************************************************************************)
(* DreamCraft API (src/main.py): a product catalog backed by an optional   *)
(* document store, a diagnostic probe of that store, and a deterministic   *)
(* placeholder art generator.                                              *)
(*                                                                         *)
(* The service keeps no state of its own between requests.  The state of   *)
(* the model is what one request leaves behind for an observer: the        *)
(* request, what the store did during it, the store calls it made and the  *)
(* response.  Every route handler is one action.  The store (module        *)
(* `database`) is an external collaborator: each of its calls returns or   *)
(* raises as the environment chooses.                                      *)
(*                                                                         *)
(* Python values are tagged records [t, s, n]: a str, a number, None, or   *)
(* the absence of a key / a request field.  Python strings are TLA+        *)
(* strings; floats are modelled by integers.                               *)
(***************************************************************************)
EXTENDS Integers, Sequences, FiniteSets, TLC

VARIABLES
    lastOp,   \* the route served last: "none", "test", "list", "create", "generate"
    req,      \* the request body of that route (NoReq for the GET routes)
    env,      \* what the store and the process environment did during it
    calls,    \* the store calls the handler made, in order
    resp,     \* the outcome of the request
    snap      \* an earlier generate-art exchange kept by the observer

vars == <<lastOp, req, env, calls, resp, snap>>

-----------------------------------------------------------------------------
(* Bounds of the model *)

MaxDocs == 2          \* documents one get_documents call returns
MaxMsgLen == 120      \* longest exception message
MaxPromptLen == 81    \* longest prompt
MaxCollections == 12  \* collections the store holds

(* Constants of the program *)

DiagCap == 80         \* str(e)[:80]
PromptCap == 80       \* prompt[:80]
CollectionCap == 10   \* collections[:10]
StatusServerError == 500   \* HTTPException(status_code=500, ...)

-----------------------------------------------------------------------------
(* Python values *)

Str(s) == [t |-> "str", s |-> s, n |-> 0]
Num(n) == [t |-> "num", s |-> "", n |-> n]
None == [t |-> "none", s |-> "", n |-> 0]
Absent == [t |-> "absent", s |-> "", n |-> 0]

Min(a, b) == IF a <= b THEN a ELSE b

\* s[:n]
Take(s, n) == SubSeq(s, 1, Min(n, Len(s)))

\* s[i:]  (0-based i)
Drop(s, i) == SubSeq(s, Min(i, Len(s)) + 1, Len(s))

Digits == "0123456789"

CharAt(s, i) == SubSeq(s, i, i)

IsDigit(c) == \E k \in 1..10 : CharAt(Digits, k) = c

DigitVal(c) == (CHOOSE k \in 1..10 : CharAt(Digits, k) = c) - 1

RECURSIVE DigitsVal(_)
DigitsVal(s) ==
    IF Len(s) = 0 THEN 0
    ELSE DigitsVal(Take(s, Len(s) - 1)) * 10 + DigitVal(CharAt(s, Len(s)))

\* the digits 0..9, k times over
RECURSIVE Blocks(_)
Blocks(k) == IF k = 0 THEN "" ELSE Blocks(k - 1) \o Digits

\* a string of n characters, the digits 0..9 repeated
Text(n) == Take(Blocks((n \div 10) + 1), n)

\* The result of an expression that may raise: a value, or an exception
\* carrying str(e).
Ok(v) == [exc |-> FALSE, val |-> v, msg |-> ""]
Raise(m) == [exc |-> TRUE, val |-> None, msg |-> m]

\* float(v) for a number, a decimal integer literal with an optional sign, any
\* other string (ValueError) and None (TypeError).
PyFloat(v) ==
    IF v.t = "num" THEN Ok(v.n)
    ELSE IF v.t = "str" THEN
        LET signed == Len(v.s) > 0 /\ CharAt(v.s, 1) \in {"-", "+"}
            body == IF signed THEN Drop(v.s, 1) ELSE v.s
            allDigits == Len(body) > 0 /\ \A i \in 1..Len(body) : IsDigit(CharAt(body, i))
        IN  IF allDigits
            THEN Ok(IF signed /\ CharAt(v.s, 1) = "-" THEN 0 - DigitsVal(body) ELSE DigitsVal(body))
            ELSE Raise("could not convert string to float: '" \o v.s \o "'")
    ELSE Raise("float() argument must be a string or a real number, not 'NoneType'")

\* str(v)
PyStr(v) ==
    IF v.t = "str" THEN v.s
    ELSE IF v.t = "num" THEN ToString(v.n)
    ELSE "None"

\* x or default, for an Optional[str]
OrElse(v, default) == IF v.t = "str" /\ v.s # "" THEN v.s ELSE default

-----------------------------------------------------------------------------
(* Requests, responses and store calls *)

NoReq == [route |-> "get"]

\* the handler returned body
Return(body) == [outcome |-> "return", status |-> 200, body |-> body]

\* the handler raised HTTPException(status_code=status, detail=detail)
HTTPException(status, detail) == [outcome |-> "http_exception", status |-> status, body |-> detail]

\* an exception left the handler
Unhandled(msg) == [outcome |-> "unhandled", status |-> StatusServerError, body |-> msg]

\* the request body failed the route's pydantic model: the handler never ran
Rejected == [outcome |-> "validation_error", status |-> 422, body |-> ""]

\* No exchange kept yet.
NoSnap == [req |-> NoReq, resp |-> Rejected, catalogSince |-> FALSE]

\* The kept exchange, once a catalog or probe request has been served after it.
Aged(s) == IF s = NoSnap THEN s ELSE [s EXCEPT !.catalogSince = TRUE]

StoreCall(fn, collection, data) == [fn |-> fn, collection |-> collection, data |-> data]

-----------------------------------------------------------------------------
(* Product models *)

ProductKeys == {"title", "description", "price", "category", "image"}

DocKeys == ProductKeys \cup {"_id", "created_at"}

Datetime(n) == [t |-> "datetime", s |-> "", n |-> n]

IsOptionalStr(v) == v.t \in {"str", "none"}

\* ProductIn with the ge=0 constraint of price left out.
ValidProductIn_unbounded(p) ==
    /\ p.title.t = "str"
    /\ IsOptionalStr(p.description)
    /\ p.price.t = "num"
    /\ p.category.t = "str"
    /\ IsOptionalStr(p.image)

\* class ProductIn: title and category are str, price is a float >= 0,
\* description and image are Optional[str]
ValidProductIn(p) ==
    /\ p.title.t = "str"
    /\ IsOptionalStr(p.description)
    /\ p.price.t = "num" /\ p.price.n >= 0
    /\ p.category.t = "str"
    /\ IsOptionalStr(p.image)

\* class ProductOut(ProductIn): id is Optional[str], created_at Optional[datetime]
ValidProductOut(p) ==
    /\ ValidProductIn(p)
    /\ IsOptionalStr(p.id)
    /\ p.created_at.t \in {"datetime", "none"}

\* The request body of POST /api/products parsed as a ProductIn: a missing
\* optional field takes its default None; a missing required field or a
\* field of the wrong shape is a validation error.
ParseProductIn(body) ==
    LET p == [title |-> body.title,
              description |-> IF body.description.t = "absent" THEN None ELSE body.description,
              price |-> body.price,
              category |-> body.category,
              image |-> IF body.image.t = "absent" THEN None ELSE body.image]
    IN  IF ValidProductIn(p) THEN Ok(p) ELSE Raise("validation error for ProductIn")

\* product.model_dump()
model_dump(p) == [k \in ProductKeys |->
    CASE k = "title" -> p.title
      [] k = "description" -> p.description
      [] k = "price" -> p.price
      [] k = "category" -> p.category
      [] OTHER -> p.image]

-----------------------------------------------------------------------------
(* Stored documents *)

\* a dict from the store holding the given keys, and no others
Doc(id, title, price, category) == [isDict |-> TRUE, f |-> [k \in DocKeys |->
    CASE k = "_id" -> id
      [] k = "title" -> title
      [] k = "price" -> price
      [] k = "category" -> category
      [] OTHER -> Absent]]

\* something that is no dict and has no .get
NonDict == [isDict |-> FALSE, f |-> [k \in DocKeys |-> Absent]]

\* d.get(k) with the default dropped
Get_no_default(d, k, default) == IF d.f[k].t = "absent" THEN None ELSE d.f[k]

\* d.get(k, default)
Get(d, k, default) == IF d.f[k].t = "absent" THEN default ELSE d.f[k]

\* The ProductOut(...) expression of list_products for one document.
MapDoc(d) ==
    IF ~d.isDict THEN Raise("object has no attribute 'get'")
    ELSE LET price == PyFloat(Get(d, "price", Num(0)))
         IN  IF price.exc THEN price
             ELSE LET p == [id |-> Str(PyStr(Get(d, "_id", None))),
                            title |-> Get(d, "title", None),
                            description |-> Get(d, "description", None),
                            price |-> Num(price.val),
                            category |-> Get(d, "category", Str("craft")),
                            image |-> Get(d, "image", None),
                            created_at |-> Get(d, "created_at", None)]
                  IN  IF ValidProductOut(p) THEN Ok(p)
                      ELSE Raise("validation error for ProductOut")

\* The for loop of list_products: the products in order, or the first exception.
RECURSIVE MapDocs(_)
MapDocs(docs) ==
    IF Len(docs) = 0 THEN Ok(<<>>)
    ELSE LET rest == MapDocs(Take(docs, Len(docs) - 1))
             last == MapDoc(docs[Len(docs)])
         IN  IF rest.exc THEN rest
             ELSE IF last.exc THEN last
             ELSE Ok(Append(rest.val, last.val))

-----------------------------------------------------------------------------
(* GET /api/products *)

\* The body of the try block: the import, the query and the loop.
list_products_try(e) ==
    IF e.import.exc THEN e.import
    ELSE IF e.query.exc THEN e.query
    ELSE MapDocs(e.query.val)

\* list_products without its except clause: the exception leaves the handler.
list_products_uncaught(e) ==
    LET r == list_products_try(e)
    IN  IF r.exc THEN Unhandled(r.msg) ELSE Return(r.val)

\* except Exception: return []
list_products(e) ==
    LET r == list_products_try(e)
    IN  IF r.exc THEN Return(<<>>) ELSE Return(r.val)

list_products_calls(e) ==
    IF e.import.exc THEN <<>> ELSE <<StoreCall("get_documents", "product", <<>>)>>

ListProducts(Envs) ==
    \E e \in Envs :
        /\ lastOp' = "list"
        /\ req' = NoReq
        /\ env' = e
        /\ calls' = list_products_calls(e)
        /\ resp' = list_products(e)
        /\ snap' = Aged(snap)

-----------------------------------------------------------------------------
(* POST /api/products *)

DetailPrefix == "Database not available: "

\* The body of the try block: the import and the write.
create_product_try(e) ==
    IF e.import.exc THEN e.import ELSE e.write

\* create_product degrading the way list_products does: a failed write
\* answered with an empty identifier.
create_product_swallowed(product, e) ==
    LET r == create_product_try(e)
    IN  IF r.exc THEN Return("") ELSE Return(r.val)

\* except Exception as e: raise HTTPException(status_code=500, detail=...)
create_product(product, e) ==
    LET r == create_product_try(e)
    IN  IF r.exc THEN HTTPException(StatusServerError, DetailPrefix \o r.msg)
        ELSE Return(r.val)

create_product_calls(product, e) ==
    IF e.import.exc THEN <<>> ELSE <<StoreCall("create_document", "product", model_dump(product))>>

\* The route: the body is validated as a ProductIn, then the handler runs.
CreateProduct(Bodies, Envs) ==
    \E body \in Bodies, e \in Envs :
        LET parsed == ParseProductIn(body)
        IN  /\ lastOp' = "create"
            /\ req' = body
            /\ env' = e
            /\ calls' = IF parsed.exc THEN <<>> ELSE create_product_calls(parsed.val, e)
            /\ resp' = IF parsed.exc THEN Rejected ELSE create_product(parsed.val, e)
            /\ snap' = Aged(snap)

-----------------------------------------------------------------------------
(* GET /test *)

\* "Set" if os.getenv(...) else "Not Set"
SetOrNot(present) == IF present THEN Str("Set") ELSE Str("Not Set")

\* The response as first built.
test_database_initial ==
    [backend |-> "Running",
     database |-> "Not Available",
     database_url |-> None,
     database_name |-> None,
     connection_status |-> "Not Connected",
     collections |-> <<>>]

\* The inner try block, with its except clause: the collection listing.
test_database_collections(r, e) ==
    IF e.collections.exc
    THEN [r EXCEPT !.database = "Connected but Error: " \o Take(e.collections.msg, DiagCap)]
    ELSE [r EXCEPT !.collections = Take(e.collections.val, CollectionCap),
                   !.database = "Connected & Working"]

\* The outer try block, with its except clause: the import and the handle.
test_database_try(r, e) ==
    IF e.import.exc
    THEN [r EXCEPT !.database = "Error: " \o Take(e.import.msg, DiagCap)]
    ELSE IF e.dbNone THEN r
    ELSE test_database_collections(
            [r EXCEPT !.database = "Available",
                      !.database_url = SetOrNot(e.url),
                      !.database_name = Str(OrElse(e.name, "Connected")),
                      !.connection_status = "Connected"], e)

\* test_database without its two closing assignments.
test_database_unfinished(e) == test_database_try(test_database_initial, e)

\* The two configuration indicators are set last, outside every try block.
test_database(e) ==
    [test_database_try(test_database_initial, e) EXCEPT
        !.database_url = SetOrNot(e.url),
        !.database_name = SetOrNot(e.dbname)]

test_database_calls(e) ==
    IF e.import.exc \/ e.dbNone THEN <<>>
    ELSE <<StoreCall("list_collection_names", "", <<>>)>>

TestDatabase(Envs) ==
    \E e \in Envs :
        /\ lastOp' = "test"
        /\ req' = NoReq
        /\ env' = e
        /\ calls' = test_database_calls(e)
        /\ resp' = Return(test_database(e))
        /\ snap' = Aged(snap)

-----------------------------------------------------------------------------
(* POST /api/generate-art *)

\* A digest salted with what the process served before (a randomised hash).
salted_hexdigest(s) == [sha256 |-> s \o lastOp]

\* hashlib.sha256(s).hexdigest(): a digest that determines s and nothing else
\* (no two inputs of the model collide).
sha256_hexdigest(s) == [sha256 |-> s]

\* "#" + seed[i:j]
Color(seed, i, j) == [hash |-> "#", digest |-> seed, from |-> i, to |-> j]

\* The aspect handling with the dashed spellings left out.
Canvas_colon_only(aspect) ==
    IF aspect = "16:9" THEN <<1280, 720>>
    ELSE IF aspect = "3:4" THEN <<960, 1280>>
    ELSE <<1024, 1024>>

\* The aspect handling: (w, h)
Canvas(aspect) ==
    IF aspect \in {"16:9", "16-9"} THEN <<1280, 720>>
    ELSE IF aspect \in {"3:4", "3-4"} THEN <<960, 1280>>
    ELSE <<1024, 1024>>

\* The markup, by the values that fill the template.
svg_markup(prompt, style, aspect) ==
    LET seed == sha256_hexdigest(prompt \o style \o aspect)
    IN  [width |-> Canvas(aspect)[1],
         height |-> Canvas(aspect)[2],
         c1 |-> Color(seed, 0, 6),
         c2 |-> Color(seed, 6, 12),
         c3 |-> Color(seed, 12, 18),
         text |-> Take(prompt, PromptCap),
         caption |-> "style: " \o style]

\* base64.b64encode(...).decode(): an encoding that b64decode inverts
b64encode(markup) == [b64 |-> markup]

svg_placeholder(prompt, style, aspect) ==
    [scheme |-> "data:image/svg+xml;base64,",
     data |-> b64encode(svg_markup(prompt, style, aspect))]

\* The request body parsed as an ArtRequest: prompt is a required str, style
\* and aspect are Optional[str] with defaults "dreamy" and "1:1".
ParseArtRequest(body) ==
    IF body.prompt.t = "str"
       /\ body.style.t \in {"str", "none", "absent"}
       /\ body.aspect.t \in {"str", "none", "absent"}
    THEN Ok([prompt |-> body.prompt.s,
             style |-> IF body.style.t = "absent" THEN Str("dreamy") ELSE body.style,
             aspect |-> IF body.aspect.t = "absent" THEN Str("1:1") ELSE body.aspect])
    ELSE Raise("validation error for ArtRequest")

\* generate_art echoing the prompt as it is drawn, cut at the cap.
generate_art_cut(r) ==
    Return([image |-> svg_placeholder(r.prompt, OrElse(r.style, "dreamy"), OrElse(r.aspect, "1:1")),
            prompt |-> Take(r.prompt, PromptCap),
            style |-> OrElse(r.style, "dreamy"),
            provider |-> "placeholder"])

generate_art(r) ==
    Return([image |-> svg_placeholder(r.prompt, OrElse(r.style, "dreamy"), OrElse(r.aspect, "1:1")),
            prompt |-> r.prompt,
            style |-> OrElse(r.style, "dreamy"),
            provider |-> "placeholder"])

NoEnv == [none |-> TRUE]

\* The route.  The observer may keep the exchange to compare later ones with.
GenerateArt(Bodies) ==
    \E body \in Bodies, keep \in BOOLEAN :
        LET parsed == ParseArtRequest(body)
            out == IF parsed.exc THEN Rejected ELSE generate_art(parsed.val)
        IN  /\ lastOp' = "generate"
            /\ req' = body
            /\ env' = NoEnv
            /\ calls' = <<>>
            /\ resp' = out
            /\ snap' = IF keep /\ ~parsed.exc
                       THEN [req |-> body, resp |-> out, catalogSince |-> FALSE]
                       ELSE snap

-----------------------------------------------------------------------------
(* The environment's choices and the requests *)

\* exception messages: short, exactly at the cap, past it, and the longest
Messages == {Text(4), Text(DiagCap), Text(DiagCap + 1), Text(MaxMsgLen)}

GoodDoc == Doc(Str("65a1"), Str("Mug"), Num(5), Str("art"))

Documents ==
    { Doc(Str("65a1"), Str("Mug"), p, Str("art")) :
        p \in {Absent, Num(5), Num(-1), Str("12"), Str("abc"), None} }
    \cup { Doc(Str("65a2"), Str("Vase"), p, Absent) : p \in {Absent, Num(5)} }
    \cup { Doc(Str("65a3"), Absent, Num(5), Str("art")), NonDict }

DocLists == UNION { [1..n -> Documents] : n \in 0..MaxDocs }

ImportError == Raise("No module named 'database'")

ListEnvs ==
    { [import |-> ImportError, query |-> Ok(<<GoodDoc>>)] }
    \cup { [import |-> Ok(TRUE), query |-> q] :
             q \in {Raise(Text(4))} \cup { Ok(docs) : docs \in DocLists } }

FewListEnvs ==
    { e \in ListEnvs : e.query \in {Raise(Text(4)), Ok(<<GoodDoc>>)} }

ProductBodies ==
    { [title |-> t, description |-> Absent, price |-> p, category |-> c, image |-> Absent] :
        t \in {Absent, Str("Mug")},
        p \in {Absent, Num(-1), Num(0), Num(12)},
        c \in {Absent, Str("art")} }

FewProductBodies ==
    { b \in ProductBodies : b.title # Absent /\ b.category # Absent /\ b.price \in {Num(-1), Num(12)} }

CreateEnvs ==
    { [import |-> i, write |-> Ok("65b7")] : i \in {ImportError} \cup { Raise(m) : m \in Messages } }
    \cup { [import |-> Ok(TRUE), write |-> w] : w \in {Ok("65b7")} \cup { Raise(m) : m \in Messages } }

FewCreateEnvs ==
    { e \in CreateEnvs : ~e.import.exc /\ e.write \in {Ok("65b7"), Raise(Text(4))} }

Collections(n) == [i \in 1..n |-> "c" \o ToString(i)]

TestEnvs ==
    { [import |-> i, dbNone |-> h, name |-> nm, collections |-> c, url |-> u, dbname |-> d] :
        i \in {Ok(TRUE), Raise(Text(MaxMsgLen))},
        h \in BOOLEAN,
        nm \in {None, Str("shop")},
        c \in { Raise(m) : m \in {Text(4), Text(MaxMsgLen)} }
              \cup { Ok(Collections(n)) : n \in {0, 1, CollectionCap, MaxCollections} },
        u \in BOOLEAN,
        d \in BOOLEAN }

FewTestEnvs ==
    { e \in TestEnvs : /\ e.name = None /\ e.url /\ e.dbname /\ ~e.dbNone /\ ~e.import.exc
                       /\ e.collections \in {Raise(Text(4)), Ok(Collections(1))} }

ArtBodies ==
    { [prompt |-> Str(p), style |-> s, aspect |-> a] :
        p \in {"", Text(MaxPromptLen)},
        s \in {Absent, None, Str(""), Str("neon")},
        a \in {Absent, None, Str("1:1"), Str("16:9"), Str("16-9"),
               Str("3:4"), Str("3-4"), Str("2:1")} }

FewArtBodies ==
    { [prompt |-> Str("a glowing forest"), style |-> Str("neon"), aspect |-> Str("16:9")] }

-----------------------------------------------------------------------------
(* The service *)

Init ==
    /\ lastOp = "none"
    /\ req = NoReq
    /\ env = NoEnv
    /\ calls = <<>>
    /\ resp = Return("")
    /\ snap = NoSnap

\* The catalog and the probe under every store behaviour of the model.
Next ==
    \/ TestDatabase(TestEnvs)
    \/ ListProducts(ListEnvs)
    \/ CreateProduct(ProductBodies, CreateEnvs)
    \/ GenerateArt(FewArtBodies)

Spec == Init /\ [][Next]_vars

\* The generator under every request of the model, between catalog requests.
NextArt ==
    \/ GenerateArt(ArtBodies)
    \/ TestDatabase(FewTestEnvs)
    \/ ListProducts(FewListEnvs)
    \/ CreateProduct(FewProductBodies, FewCreateEnvs)

SpecArt == Init /\ [][NextArt]_vars

-----------------------------------------------------------------------------
(* Properties of GET /api/products *)

IsProductList(body) == \A i \in 1..Len(body) : ValidProductOut(body[i])

\* C1: list_products never fails for its caller.  Whatever the store does (its
\* module cannot be imported, get_documents raises, a document it returns is
\* malformed), the handler returns a list of products and raises nothing; when
\* the import or the query raises, that list is empty.
C1_ListNeverFails ==
    lastOp = "list" =>
        /\ resp.outcome = "return"
        /\ IsProductList(resp.body)
        /\ (env.import.exc \/ env.query.exc) => resp.body = <<>>

\* get_documents raised, and the caller got the empty list
C1_Witness ==
    /\ lastOp = "list"
    /\ ~env.import.exc
    /\ env.query.exc
    /\ resp.outcome = "return"
    /\ resp.body = <<>>

\* A document list_products can turn into a product: a dict with a str title,
\* a str category or none, and a price that is missing, a number >= 0 or an
\* unsigned decimal literal.
IsUnsignedLiteral(v) ==
    v.t = "str" /\ Len(v.s) > 0 /\ \A i \in 1..Len(v.s) : IsDigit(CharAt(v.s, i))

WellFormed(d) ==
    /\ d.isDict
    /\ d.f["title"].t = "str"
    /\ d.f["category"].t \in {"str", "absent"}
    /\ \/ d.f["price"].t = "absent"
       \/ d.f["price"].t = "num" /\ d.f["price"].n >= 0
       \/ IsUnsignedLiteral(d.f["price"])

\* the query returned documents
Queried == lastOp = "list" /\ ~env.import.exc /\ ~env.query.exc

NonNumericPrice(d) ==
    /\ d.isDict
    /\ \/ d.f["price"].t = "none"
       \/ d.f["price"].t = "str" /\ ~IsUnsignedLiteral(d.f["price"])

\* C9: a stored document whose price is present but non-numeric is listed
\* with price 0, beside every other document of the query.
C9_NonNumericPriceIsZero ==
    (Queried /\ \A i \in 1..Len(env.query.val) :
                    WellFormed(env.query.val[i]) \/ NonNumericPrice(env.query.val[i])) =>
        /\ Len(resp.body) = Len(env.query.val)
        /\ \A i \in 1..Len(env.query.val) :
            NonNumericPrice(env.query.val[i]) => resp.body[i].price = Num(0)

-----------------------------------------------------------------------------
(* Properties of POST /api/products *)

\* the body passed validation and create_product ran
Created == lastOp = "create" /\ resp.outcome # "validation_error"

\* C2: create_product never reports success for a write that failed.  When
\* the store module cannot be imported or create_document raises, the handler
\* ends in an HTTP 500 failure and returns no identifier; when it returns, it
\* returns what create_document returned.
C2_CreateFailsLoudly ==
    Created =>
        /\ (env.import.exc \/ env.write.exc) =>
              resp.outcome = "http_exception" /\ resp.status = StatusServerError
        /\ resp.outcome = "return" =>
              ~env.import.exc /\ ~env.write.exc /\ resp.body = env.write.val

\* create_document raised on a valid product
C2_Witness ==
    /\ Created
    /\ ~env.import.exc
    /\ env.write.exc
    /\ calls # <<>>
    /\ resp.outcome = "http_exception"
    /\ resp.status = StatusServerError

\* C3: when create_product fails on the store, the part of the response
\* detail taken from the store's error holds at most 80 characters.
C3_CreateDiagnosticCapped ==
    (Created /\ resp.outcome = "http_exception") =>
        Len(resp.body) - Len(DetailPrefix) <= DiagCap

IsCreateCall(c) == c.fn = "create_document"

\* C4: a create-product request with a negative price is rejected as a
\* validation error and makes no store call; no product with a negative price
\* is ever handed to create_document.
C4_NegativePriceRejected ==
    lastOp = "create" =>
        /\ (req.price.t = "num" /\ req.price.n < 0) =>
              resp.outcome = "validation_error" /\ calls = <<>>
        /\ \A i \in 1..Len(calls) :
              IsCreateCall(calls[i]) => calls[i].data["price"].n >= 0

\* price -1 on an otherwise valid body, with a store that would have taken it
C4_Witness ==
    /\ lastOp = "create"
    /\ req.title.t = "str"
    /\ req.category.t = "str"
    /\ req.price = Num(-1)
    /\ ~env.import.exc
    /\ ~env.write.exc
    /\ resp = Rejected
    /\ calls = <<>>

-----------------------------------------------------------------------------
(* Properties of POST /api/generate-art *)

\* generate_art ran and returned
Generated == lastOp = "generate" /\ resp.outcome = "return"

\* base64.b64decode: the inverse of b64encode
b64decode(data) == data.b64

\* the canvas of the image in the response: (width, height) of its markup
ImageCanvas ==
    LET m == b64decode(resp.body.image.data) IN <<m.width, m.height>>

RequestedAspect(a) == req.aspect = Str(a)

\* C5 as stated: "16:9" gives 1280x720, "3:4" gives 960x1280 and every other
\* aspect value gives 1024x1024.
C5_AspectMappingAsStated ==
    Generated =>
        ImageCanvas = IF RequestedAspect("16:9") THEN <<1280, 720>>
                      ELSE IF RequestedAspect("3:4") THEN <<960, 1280>>
                      ELSE <<1024, 1024>>

\* C5, amended: "16:9" and "16-9" give 1280x720, "3:4" and "3-4" give
\* 960x1280, and every other aspect value (among them "1:1", an unrecognised
\* string, null and a missing aspect) gives 1024x1024.
C5_AspectMapping ==
    Generated =>
        ImageCanvas = IF RequestedAspect("16:9") \/ RequestedAspect("16-9") THEN <<1280, 720>>
                      ELSE IF RequestedAspect("3:4") \/ RequestedAspect("3-4") THEN <<960, 1280>>
                      ELSE <<1024, 1024>>

\* the dashed spelling of the wide aspect, drawn wide
C5_Witness ==
    /\ Generated
    /\ RequestedAspect("16-9")
    /\ ImageCanvas = <<1280, 720>>

C7_EchoAsStated ==
    lastOp = "generate" =>
        /\ resp.outcome = "return"
        /\ resp.body.prompt = req.prompt.s
        /\ resp.body.style = (IF req.style.t = "str" THEN req.style.s ELSE "dreamy")
        /\ resp.body.provider = "placeholder"

\* C7, amended: generate-art succeeds for any string inputs; the response's
\* prompt is the request's prompt, its style is the request's style when that
\* is a non-empty string and "dreamy" when the request gives no style, a null
\* style or an empty one, and its provider is "placeholder".
C7_Echo ==
    lastOp = "generate" =>
        /\ resp.outcome = "return"
        /\ resp.body.prompt = req.prompt.s
        /\ resp.body.style =
              (IF req.style.t = "str" /\ req.style.s # "" THEN req.style.s ELSE "dreamy")
        /\ resp.body.provider = "placeholder"

\* a prompt past the drawing cap and an empty style
C7_Witness ==
    /\ Generated
    /\ Len(req.prompt.s) > PromptCap
    /\ resp.body.prompt = req.prompt.s
    /\ req.style = Str("")
    /\ resp.body.style = "dreamy"

-----------------------------------------------------------------------------
(* Properties of GET /test *)

\* the report the probe would give had the import succeeded and a handle existed
WithHandle(e) == test_database([e EXCEPT !.import = Ok(TRUE), !.dbNone = FALSE])

\* the reports the probe could give had list_collection_names returned
WithListing(e) ==
    { test_database([e EXCEPT !.collections = Ok(Collections(n))]) : n \in 0..MaxCollections }

NoHandle(e) == e.import.exc \/ e.dbNone

ListingFails(e) == ~NoHandle(e) /\ e.collections.exc

\* C10 as stated: the probe returns a complete report with at most 10
\* collections, and a failed sub-check changes nothing but its own status:
\* without a store handle every field but database and connection_status is
\* what it is with one, and when the listing raises every field but database
\* and collections is what it is when the listing returns.
C10_IsolatedAsStated ==
    lastOp = "test" =>
        /\ resp.outcome = "return"
        /\ Len(resp.body.collections) <= CollectionCap
        /\ NoHandle(env) =>
              \A f \in {"backend", "database_url", "database_name", "collections"} :
                  resp.body[f] = WithHandle(env)[f]
        /\ ListingFails(env) =>
              \A r \in WithListing(env) :
                  \A f \in {"backend", "database_url", "database_name", "connection_status"} :
                      resp.body[f] = r[f]

\* C10, amended: the probe never aborts and always returns a complete report
\* with at most 10 collections.  The two configuration indicators say what
\* the configuration alone decides, under every failure.  When
\* list_collection_names raises, only the database status text differs from
\* a run where it returns, and collections stays empty.  When the import
\* fails or the handle is None the dependent sub-checks do not run: the
\* report keeps connection_status "Not Connected" and an empty collections.
C10_Isolated ==
    lastOp = "test" =>
        /\ resp.outcome = "return"
        /\ Len(resp.body.collections) <= CollectionCap
        /\ resp.body.database_url = SetOrNot(env.url)
        /\ resp.body.database_name = SetOrNot(env.dbname)
        /\ NoHandle(env) =>
              /\ \A f \in {"backend", "database_url", "database_name"} :
                    resp.body[f] = WithHandle(env)[f]
              /\ resp.body.connection_status = "Not Connected"
              /\ resp.body.collections = <<>>
        /\ ListingFails(env) =>
              /\ \A r \in WithListing(env) :
                    \A f \in {"backend", "database_url", "database_name", "connection_status"} :
                        resp.body[f] = r[f]
              /\ resp.body.collections = <<>>
        /\ (~NoHandle(env) /\ ~env.collections.exc) =>
              resp.body.collections = Take(env.collections.val, CollectionCap)

\* the import failed on a store that holds more collections than the cap
C10_Witness ==
    /\ lastOp = "test"
    /\ env.import.exc
    /\ ~env.dbNone
    /\ env.collections = Ok(Collections(MaxCollections))
    /\ env.url
    /\ resp.body.database_url = Str("Set")
    /\ resp.body.collections = <<>>
    /\ Len(WithHandle(env).collections) = CollectionCap

====
